---- MODULE Spec2Model ----
(***************************************************************************)
(* TinyTest (src/tiny_test.hpp): a TestGroup owning Test objects           *)
(* (SimpleTest, PrettyTest, TimedTest around either), driven by a loop     *)
(* that constructs the group, optionally add()s units and calls run().     *)
(*                                                                         *)
(* Milliseconds (C++ double) are exact rationals <<numerator,              *)
(* denominator>>; +infinity is <<1, 0>>.  Floating-point rounding is not   *)
(* modelled.                                                               *)
(*                                                                         *)
(* std::cout is write-only.  The model keeps it in two segments: `out` is  *)
(* what the Test::operator() call in progress (or the last finished one)   *)
(* has printed, `gout` is what the TestGroup::run call in progress (or     *)
(* the last finished one) has printed itself.                              *)
(***************************************************************************)
EXTENDS Integers, Sequences, FiniteSets, TLC

\* Bounds of the model.
MaxUnits == 2      \* units owned by one group
MaxChecks == 2     \* check/fail/equals calls of one functor execution
MaxRuns == 2       \* run() calls on the group

\* <ctime>: clock ticks per second (POSIX value).
CLOCKS_PER_SEC == 1000000

\* Input domains.
Names == {"t"}
Values == {0, 1}                  \* operands handed to equals()
Messages == {"", "boom"}          \* std::exception::what()
Limits == {0, 1}                  \* std::chrono::microseconds::count()
ClockReadings == 0 .. 2           \* values returned by std::clock()

\* std::numeric_limits<double>::infinity()
Infinity == <<1, 0>>

\* operator< on the doubles x and y (denominators are never negative).
Less(x, y) == x[1] * y[2] < y[1] * x[2]

\* What a functor can throw: a std::exception with a message, or anything else.
Exceptions ==
    [type : {"std::exception"}, what : Messages]
        \cup {[type |-> "other", what |-> ""]}

Line(k, v) == [k |-> k, v |-> v]

-----------------------------------------------------------------------------
\* Construction helpers.

\* A Test object.  result_ exists in PrettyTest only and max_runtime_ in
\* TimedTest only; the other kinds carry the initial value and never read it.
\* id and issued are history: the position of the add() call that stored the
\* object, and the set of conditions its check() has been handed so far.
NewTest(kind, timed, limit, name) ==
    [name_ |-> name, kind |-> kind, timed |-> timed, max_runtime_ |-> limit,
     result_ |-> TRUE, id |-> 0, issued |-> {}]

make_test(kind, name) == NewTest(kind, FALSE, Infinity, name)

make_timed_test(kind, name) == NewTest(kind, TRUE, Infinity, name)

\* double(time_limit.count()) * 1e-3
make_timed_test_limit(time_limit, kind, name) ==
    NewTest(kind, TRUE, <<time_limit, 1000>>, name)

Kinds == {"SimpleTest", "PrettyTest"}

Units ==
    {make_test(k, n) : k \in Kinds, n \in Names}
        \cup {make_timed_test(k, n) : k \in Kinds, n \in Names}
        \cup {make_timed_test_limit(l, k, n) : l \in Limits, k \in Kinds, n \in Names}

-----------------------------------------------------------------------------
\* PrettyTest: the recorder operations.  Each takes the current result_ and
\* yields the new result_, the value returned and the lines printed.

\* Faulty variant of Check: assigns the condition instead of and-ing it in.
CheckAssign(result_, condition) ==
    [result_ |-> condition,
     ret |-> condition,
     lines |-> IF condition = FALSE
               THEN <<Line("condition evaluated to false", "")>> ELSE <<>>]

Check(result_, condition) ==
    [result_ |-> result_ /\ condition,
     ret |-> condition,
     lines |-> IF condition = FALSE
               THEN <<Line("condition evaluated to false", "")>> ELSE <<>>]

\* Faulty variant of Fail: reports the failure without recording it.
FailUnrecorded(result_) ==
    [result_ |-> result_, ret |-> FALSE,
     lines |-> <<Line("condition evaluated to false", "")>>]

Fail(result_) == Check(result_, FALSE)

\* Both overloads: the Printable one prints the operands on failure.
Equals(result_, first, second, printable) ==
    LET c == Check(result_, first = second)
    IN  IF printable /\ ~c.ret
        THEN [c EXCEPT !.lines = @ \o <<Line("!=", <<first, second>>)>>]
        ELSE c

\* SimpleTest::doTest returns f_(); PrettyTest::doTest returns result_
\* after f_(*this) has returned.
ParentDoTest(test, value) ==
    IF test.kind = "SimpleTest" THEN value ELSE test.result_

\* double(finish - start) * 1000.0 / CLOCKS_PER_SEC
ExecutionMs(start, finish) == <<(finish - start) * 1000, CLOCKS_PER_SEC>>

\* Faulty variant of TimedDoTest: a run that takes exactly the limit is too slow.
TimedDoTestStrict(test, result, start, finish) ==
    LET execution_ms == ExecutionMs(start, finish)
        finished == <<Line("finished in", execution_ms)>>
    IN  IF ~Less(execution_ms, test.max_runtime_)
        THEN [result |-> FALSE,
              lines |-> finished \o <<Line("SLOWER than given limit", test.max_runtime_)>>,
              execution_ms |-> execution_ms]
        ELSE [result |-> result, lines |-> finished, execution_ms |-> execution_ms]

\* TimedTest::doTest after Parent::doTest() has returned `result`.
TimedDoTest(test, result, start, finish) ==
    LET execution_ms == ExecutionMs(start, finish)
        finished == <<Line("finished in", execution_ms)>>
    IN  IF Less(test.max_runtime_, execution_ms)
        THEN [result |-> FALSE,
              lines |-> finished \o <<Line("SLOWER than given limit", test.max_runtime_)>>,
              execution_ms |-> execution_ms]
        ELSE [result |-> result, lines |-> finished, execution_ms |-> execution_ms]

\* The virtual doTest() of the object, once its functor has returned `value`.
DoTest(test, value, start, finish) ==
    IF test.timed
    THEN TimedDoTest(test, ParentDoTest(test, value), start, finish)
    ELSE [result |-> ParentDoTest(test, value), lines |-> <<>>, execution_ms |-> <<0, 1>>]

\* Faulty variant of Catch: the catch (...) handler is missing.
CatchStdOnly(exception) ==
    IF exception.type = "std::exception"
    THEN [caught |-> TRUE, lines |-> <<Line("caught exception", exception.what)>>]
    ELSE [caught |-> FALSE, lines |-> <<>>]

\* The handlers of Test::operator(): which exceptions they stop, what they print.
Catch(exception) ==
    IF exception.type = "std::exception"
    THEN [caught |-> TRUE, lines |-> <<Line("caught exception", exception.what)>>]
    ELSE [caught |-> TRUE, lines |-> <<Line("caught unknown exception", "")>>]

\* Faulty variant of Banner: the two tokens are swapped.
BannerSwapped(res) == Line(IF res THEN "FAIL" ELSE "OK", "")

\* The last line of Test::operator().
Banner(res) == Line(IF res THEN "OK" ELSE "FAIL", "")

-----------------------------------------------------------------------------
\* TestGroup.

\* Faulty variant of add: the unit is inserted at the front.
addFront(tests, test) == <<[test EXCEPT !.id = Len(tests) + 1]>> \o tests

\* tests_.push_back(std::move(test))
add(tests, test) == Append(tests, [test EXCEPT !.id = Len(tests) + 1])

\* The variadic constructor: delegate to the constructor of the remaining
\* arguments, then add(first) in the body.
RECURSIVE TestGroupCtor(_)
TestGroupCtor(args) ==
    IF args = <<>> THEN <<>>
    ELSE add(TestGroupCtor(Tail(args)), Head(args))

\* Faulty variant of CountError: the test of the result is inverted.
CountErrorInverted(errors, result) == IF result THEN errors + 1 ELSE errors

\* if (!result) ++errors;
CountError(errors, result) == IF ~result THEN errors + 1 ELSE errors

\* bool result = (errors == 0);
RunResult(errors) == errors = 0

\* The lines run() prints after the loop.
Summary(errors, size) ==
    IF ~RunResult(errors)
    THEN <<Line("Group failed!", ""), Line("Failed", <<errors, size>>)>>
    ELSE <<>>

-----------------------------------------------------------------------------
VARIABLES
    pc,         \* where the program is
    ctorArgs,   \* the constructor's pack of unique_ptr<Test>, until moved from
    tests_,     \* TestGroup::tests_
    runs,       \* run() calls that have returned
    ret,        \* what the last run() returned, and tests_.size() then
    i,          \* position of the range-for of run()
    errors,     \* the local `errors` of run()
    executed,   \* history: the units operator() was called on in this run()
    gout,       \* console: lines of this run() itself
    out,        \* console: lines of this operator() call
    frame       \* the operator() call in progress or last finished

vars == <<pc, ctorArgs, tests_, runs, ret, i, errors, executed, gout, out, frame>>

NoOp == [name |-> "none", cond |-> FALSE, ret |-> FALSE, before |-> FALSE, after |-> FALSE]

NoFrame ==
    [status |-> "none", idx |-> 0, checks |-> <<>>, op |-> NoOp, thrown |-> "",
     parent |-> FALSE, res |-> FALSE, execution_ms |-> <<0, 1>>]

\* Bound on the groups explored: a timed unit is the only unit of its group
\* (the loop of run() treats every unit alike).
GroupOk(tests) == Len(tests) > 1 => \A k \in 1 .. Len(tests) : ~tests[k].timed

Init ==
    /\ pc = "ctor"
    /\ ctorArgs \in {a \in UNION {[1 .. n -> Units] : n \in 0 .. MaxUnits} : GroupOk(a)}
    /\ tests_ = <<>>
    /\ runs = 0
    /\ ret = [result |-> FALSE, size |-> 0]
    /\ i = 0
    /\ errors = 0
    /\ executed = <<>>
    /\ gout = <<>>
    /\ out = <<>>
    /\ frame = NoFrame

\* TestGroup(std::string name, FirstTest first, OtherTests... other)
Construct ==
    /\ pc = "ctor"
    /\ tests_' = TestGroupCtor(ctorArgs)
    /\ ctorArgs' = <<>>
    /\ pc' = "idle"
    /\ UNCHANGED <<runs, ret, i, errors, executed, gout, out, frame>>

\* TestGroup::add
Add(test) ==
    /\ pc = "idle"
    /\ Len(tests_) < MaxUnits
    /\ GroupOk(add(tests_, test))
    /\ tests_' = add(tests_, test)
    /\ UNCHANGED <<pc, ctorArgs, runs, ret, i, errors, executed, gout, out, frame>>

\* TestGroup::run, up to the loop.
RunBegin ==
    /\ pc = "idle"
    /\ runs < MaxRuns
    /\ gout' = <<Line("Running group", "")>>
    /\ errors' = 0
    /\ i' = 1
    /\ executed' = <<>>
    /\ pc' = "run"
    /\ UNCHANGED <<ctorArgs, tests_, runs, ret, out, frame>>

\* The loop calls (*test)(): Test::operator() prints the start line, sets
\* res = false and enters doTest(), which enters the functor.
CallTest ==
    /\ pc = "run"
    /\ i <= Len(tests_)
    /\ out' = <<Line("test", tests_[i].name_)>>
    /\ frame' = [NoFrame EXCEPT !.status = "running", !.idx = i]
    /\ pc' = "functor"
    /\ UNCHANGED <<ctorArgs, tests_, runs, ret, i, errors, executed, gout>>

\* One recorder call of the functor; r is what the call yields.
Recorded(name, cond, r) ==
    /\ pc = "functor"
    /\ tests_[i].kind = "PrettyTest"
    /\ Len(frame.checks) < MaxChecks
    /\ tests_' = [tests_ EXCEPT ![i].result_ = r.result_, ![i].issued = @ \cup {cond}]
    /\ out' = out \o r.lines
    /\ frame' = [frame EXCEPT
                    !.checks = Append(@, cond),
                    !.op = [name |-> name, cond |-> cond, ret |-> r.ret,
                            before |-> tests_[i].result_, after |-> r.result_]]
    /\ UNCHANGED <<pc, ctorArgs, runs, ret, i, errors, executed, gout>>

\* test.check(condition)
FunctorCheck(condition) ==
    Recorded("check", condition, Check(tests_[i].result_, condition))

\* test.fail()
FunctorFail ==
    Recorded("fail", FALSE, Fail(tests_[i].result_))

\* test.equals(first, second)
FunctorEquals(first, second, printable) ==
    Recorded("equals", first = second, Equals(tests_[i].result_, first, second, printable))

\* The rest of the loop body once operator() has returned res.
LoopStep(res) ==
    /\ errors' = CountError(errors, res)
    /\ executed' = Append(executed, [id |-> tests_[i].id, res |-> res])
    /\ i' = i + 1
    /\ pc' = "run"

\* The functor returns: doTest() finishes, operator() prints the banner and
\* returns, the loop counts the result and moves on.
FunctorReturn(value, start, finish) ==
    /\ pc = "functor"
    /\ tests_[i].kind = "PrettyTest" => value
    /\ ~tests_[i].timed => start = 0 /\ finish = 0
    /\ start <= finish
    /\ LET t == DoTest(tests_[i], value, start, finish)
           res == t.result
       IN  /\ out' = out \o t.lines \o <<Banner(res)>>
           /\ frame' = [frame EXCEPT
                           !.status = "returned",
                           !.op = NoOp,
                           !.parent = ParentDoTest(tests_[i], value),
                           !.res = res,
                           !.execution_ms = t.execution_ms]
           /\ LoopStep(res)
    /\ UNCHANGED <<ctorArgs, tests_, runs, ret, gout>>

\* The functor throws: the exception leaves doTest() (TimedTest::doTest has
\* no handler) and reaches the handlers of operator(), where res is false.
FunctorThrow(exception) ==
    /\ pc = "functor"
    /\ LET c == Catch(exception)
           res == FALSE
       IN  IF c.caught
           THEN /\ out' = out \o c.lines \o <<Banner(res)>>
                /\ frame' = [frame EXCEPT
                                !.status = "threw",
                                !.op = NoOp,
                                !.thrown = exception.type,
                                !.res = res]
                /\ LoopStep(res)
           ELSE /\ pc' = "terminated"
                /\ frame' = [frame EXCEPT !.status = "escaped", !.op = NoOp,
                                          !.thrown = exception.type]
                /\ UNCHANGED <<out, errors, executed, i>>
    /\ UNCHANGED <<ctorArgs, tests_, runs, ret, gout>>

\* TestGroup::run, after the loop.
RunEnd ==
    /\ pc = "run"
    /\ i > Len(tests_)
    /\ gout' = gout \o Summary(errors, Len(tests_))
    /\ ret' = [result |-> RunResult(errors), size |-> Len(tests_)]
    /\ runs' = runs + 1
    /\ pc' = "idle"
    /\ UNCHANGED <<ctorArgs, tests_, i, errors, executed, out, frame>>

Next ==
    \/ Construct
    \/ \E test \in Units : Add(test)
    \/ RunBegin
    \/ CallTest
    \/ \E condition \in BOOLEAN : FunctorCheck(condition)
    \/ FunctorFail
    \/ \E first \in Values, second \in Values, printable \in BOOLEAN :
          FunctorEquals(first, second, printable)
    \/ \E value \in BOOLEAN, start \in ClockReadings, finish \in ClockReadings :
          FunctorReturn(value, start, finish)
    \/ \E exception \in Exceptions : FunctorThrow(exception)
    \/ RunEnd

Spec == Init /\ [][Next]_vars

-----------------------------------------------------------------------------
\* Properties.

RECURSIVE AndAll(_)
AndAll(conditions) ==
    IF conditions = <<>> THEN TRUE
    ELSE Head(conditions) /\ AndAll(Tail(conditions))

LessEq(x, y) == x[1] * y[2] <= y[1] * x[2]

Finished == frame.status \in {"returned", "threw"}

\* The operator() call described by frame is the last one the loop made.
JustFinished == Finished /\ Len(executed) = frame.idx

Recorder(k) == tests_[k].kind = "PrettyTest"

CountFalse(log) == Cardinality({k \in 1 .. Len(log) : ~log[k].res})

CountLines(lines, kinds) == Cardinality({k \in 1 .. Len(lines) : lines[k].k \in kinds})

\* C1: whatever the functor of a unit of any variant throws, and whatever checks
\* passed before, operator() returns false to the loop of run() and the
\* exception goes no further: the program never terminates on it.
C1_ThrowYieldsFalse ==
    /\ pc # "terminated"
    /\ frame.status # "escaped"
    /\ frame.status = "threw" => ~frame.res
    /\ JustFinished /\ frame.status = "threw" =>
          /\ executed[frame.idx].res = FALSE
          /\ pc \in {"run", "idle"}

C1_Witness ==
    /\ JustFinished
    /\ frame.status = "threw"
    /\ frame.thrown = "other"
    /\ Recorder(frame.idx)
    /\ tests_[frame.idx].timed
    /\ frame.checks = <<TRUE, TRUE>>

\* C2: run() returns true iff no executed unit returned false; when it returns
\* false the lines it printed end with the summary "failed/total", failed being
\* that number and total the number of owned units, and when it returns true it
\* printed nothing but its start line.
C2_GroupResult ==
    pc = "idle" /\ runs > 0 =>
        LET failed == CountFalse(executed)
        IN  /\ ret.result = (failed = 0)
            /\ ret.result => gout = <<Line("Running group", "")>>
            /\ ~ret.result =>
                  gout = <<Line("Running group", ""), Line("Group failed!", ""),
                           Line("Failed", <<failed, ret.size>>)>>

C2_Witness ==
    /\ pc = "idle"
    /\ runs > 0
    /\ ret = [result |-> FALSE, size |-> 2]
    /\ CountFalse(executed) = 1

\* C3: the constructor stores the units in the order of its arguments: once
\* constructed, tests_ holds argument k at position k.
C3_CtorKeepsOrder ==
    [][pc = "ctor" =>
          /\ Len(tests_') = Len(ctorArgs)
          /\ \A k \in 1 .. Len(ctorArgs) : [tests_'[k] EXCEPT !.id = 0] = ctorArgs[k]]_vars

\* C4: the result of a recorder unit's execution depends only on the checks of
\* that execution: when its functor returns, PrettyTest::doTest yields the
\* conjunction of the checks issued since the functor was entered.
C4_RunsIndependent ==
    frame.status = "returned" /\ Recorder(frame.idx) =>
        frame.parent = AndAll(frame.checks)

\* C5: a recorder's result_ is the conjunction of every condition handed to it,
\* in whatever order: it is false exactly when some condition was false, stays
\* false under later passing checks, and is what PrettyTest::doTest yields when
\* the functor returns.
C5_ResultIsConjunction ==
    /\ \A k \in 1 .. Len(tests_) :
          Recorder(k) => tests_[k].result_ = (FALSE \notin tests_[k].issued)
    /\ frame.status = "returned" /\ Recorder(frame.idx) =>
          frame.parent = (FALSE \notin tests_[frame.idx].issued)
    /\ frame.status \in {"running", "returned"} /\ frame.idx > 0 /\ runs = 0 =>
          (Recorder(frame.idx) =>
              /\ tests_[frame.idx].result_ = AndAll(frame.checks)
              /\ frame.status = "returned" => frame.parent = AndAll(frame.checks))

C5_Witness ==
    /\ frame.status = "returned"
    /\ Recorder(frame.idx)
    /\ ~tests_[frame.idx].timed
    /\ frame.checks = <<FALSE, TRUE>>
    /\ frame.res = FALSE

\* C6: when the functor of a timed unit returns, the unit's result is the
\* wrapped result and (duration <= limit); with the default limit it is the
\* wrapped result.
C6_TimedResult ==
    frame.status = "returned" /\ tests_[frame.idx].timed =>
        /\ frame.res = (frame.parent /\ LessEq(frame.execution_ms, tests_[frame.idx].max_runtime_))
        /\ tests_[frame.idx].max_runtime_ = Infinity => frame.res = frame.parent

C6_Witness ==
    /\ frame.status = "returned"
    /\ tests_[frame.idx].timed
    /\ tests_[frame.idx].max_runtime_ = <<1, 1000>>
    /\ frame.execution_ms = <<1000, CLOCKS_PER_SEC>>
    /\ frame.res

\* C7: check returns its condition and ands it into result_; fail() returns and
\* records what check(false) does, equals(a, b) what check(a == b) does.
C7_FailEqualsAreChecks ==
    /\ frame.op.name \in {"check", "equals"} =>
          /\ frame.op.ret = frame.op.cond
          /\ frame.op.after = (frame.op.before /\ frame.op.cond)
    /\ frame.op.name = "fail" =>
          /\ frame.op.ret = FALSE
          /\ frame.op.after = FALSE

C7_Witness ==
    /\ frame.op.name = "fail"
    /\ frame.op.before
    /\ frame.checks = <<TRUE, FALSE>>

\* C8: every finished execution of a timed unit has printed the elapsed-time
\* line, and has printed the exceeded-limit line exactly when the functor
\* returned and the duration was greater than the limit.
C8_ElapsedAlways ==
    Finished /\ tests_[frame.idx].timed =>
        /\ CountLines(out, {"finished in"}) = 1
        /\ CountLines(out, {"SLOWER than given limit"}) =
              (IF /\ frame.status = "returned"
                  /\ ~LessEq(frame.execution_ms, tests_[frame.idx].max_runtime_)
               THEN 1 ELSE 0)

\* C9: run() calls the units one after the other in the order of the add()
\* calls that stored them, each once, whatever the earlier ones returned or
\* threw, and returns when all owned units have been called.
C9_EveryUnitInOrder ==
    /\ \A k \in 1 .. Len(executed) : executed[k].id = k /\ tests_[k].id = k
    /\ pc \in {"run", "functor"} => Len(executed) = i - 1
    /\ pc = "functor" => frame.idx = i /\ i <= Len(tests_)
    /\ pc = "idle" /\ runs > 0 => Len(executed) = ret.size

C9_Witness ==
    /\ pc = "idle"
    /\ runs > 0
    /\ ret.size = 2
    /\ Len(executed) = 2
    /\ ~executed[1].res
    /\ executed[2].res
    /\ Len(tests_) = 2

\* C10: the lines of one operator() call start with the start line carrying the
\* unit's name, printed before the functor runs; the call ends, also on an
\* exception, with the one pass/fail line, after every diagnostic; that line
\* carries the pass token iff the call returned true.
C10_OutputOrder ==
    /\ frame.status \in {"running", "returned", "threw"} =>
          /\ out[1] = Line("test", tests_[frame.idx].name_)
          /\ CountLines(out, {"test"}) = 1
    /\ frame.status = "running" => CountLines(out, {"OK", "FAIL"}) = 0
    /\ Finished =>
          /\ CountLines(out, {"OK", "FAIL"}) = 1
          /\ out[Len(out)].k = (IF frame.res THEN "OK" ELSE "FAIL")
    /\ JustFinished => executed[frame.idx].res = frame.res

C10_Witness ==
    /\ frame.status = "threw"
    /\ Len(out) = 5
    /\ out[2].k = "condition evaluated to false"
    /\ out[3].k = "!="
    /\ out[4].k = "caught exception"
    /\ out[5].k = "FAIL"

====
